---------------------------- MODULE Spec2Model ----------------------------
(***************************************************************************)
(* Model of verify_tools.py, the NeuroSploit tool verification script.     *)
(*                                                                         *)
(* Representation of Python strings.  A command, package or variable name  *)
(* that the script only compares or prints is a TLA+ string.  A string the *)
(* script cuts up (a settings-file line, an environment key or value) is a *)
(* sequence of atoms: the characters the code tests for (" ", "\t", "\n",  *)
(* "=", "#") are one atom each, and every maximal run of other characters  *)
(* is one atom ("KEY", "sk-real123").  strip, split, startswith and the    *)
(* membership test work on the atoms exactly as Python works on the        *)
(* characters; <<>> is the empty string.  A message is the sequence of the *)
(* pieces that the code concatenates.                                      *)
(***************************************************************************)
EXTENDS Naturals, Sequences, FiniteSets, TLC

VARIABLES
    pc,             \* position of main(), or of a direct call of one function
    idx,            \* index of the running for-loop in its catalog
    missing_tools,  \* main's list missing_tools
    environ,        \* os.environ: a function from keys to values
    printed,        \* arguments of the latest print_status call
    summary,        \* what the summary block printed
    exit_status,    \* the process's exit status once it has ended
    env_lines,      \* the lines of .env that "for line in f" has yielded
    sys_missing,    \* how many system-tool probes printed MISSING
    sec_missing,    \* how many security-tool probes printed MISSING
    input,          \* argument and surroundings of a direct call
    result          \* what a direct call returned or raised

vars == << pc, idx, missing_tools, environ, printed, summary, exit_status,
           env_lines, sys_missing, sec_missing, input, result >>

-----------------------------------------------------------------------------
(* Bounds of the explored inputs. *)

MaxMissing == 1    \* commands the surroundings lack, over one run of main
MaxLines == 2      \* lines of the .env file, over one run of main
MaxLineLen == 4    \* atoms of a line handed directly to the loader
MaxValLen == 2     \* atoms of a value handed directly to check_env_var

-----------------------------------------------------------------------------
(* Python's str operations, on sequences of atoms. *)

\* The characters str.strip() removes, as far as the explored inputs use them.
Whitespace == {" ", "\t", "\n"}

RECURSIVE lstrip(_)
lstrip(s) ==
    IF s # <<>> /\ Head(s) \in Whitespace THEN lstrip(Tail(s)) ELSE s

RECURSIVE rstrip(_)
rstrip(s) ==
    IF s # <<>> /\ s[Len(s)] \in Whitespace
    THEN rstrip(SubSeq(s, 1, Len(s) - 1))
    ELSE s

strip(s) == rstrip(lstrip(s))

\* a in s, for a one-character a
contains(s, a) == \E i \in 1..Len(s) : s[i] = a

\* s.startswith(a), for a one-character a
startswith(s, a) == s # <<>> /\ s[1] = a

\* s.find(a): the first index of a in s (1-based); s contains a
find(s, a) == CHOOSE i \in 1..Len(s) : s[i] = a /\ \A j \in 1..(i - 1) : s[j] # a

\* s.split(a, 1), for s containing a: the parts before and after the first a
split1(s, a) ==
    << SubSeq(s, 1, find(s, a) - 1), SubSeq(s, find(s, a) + 1, Len(s)) >>

-----------------------------------------------------------------------------
(* The catalogs of main(). *)

sys_tools == << "git", "curl", "wget", "jq", "nmap", "go", "cargo" >>

py_packages ==
    << "requests", "dnspython", "urllib3", "anthropic", "openai",
       "google.generativeai", "mistune", "wafw00f", "paramspider" >>

sec_tools ==
    << "nmap", "rustscan", "naabu", "masscan",
       "subfinder", "amass", "assetfinder", "findomain", "puredns",
       "httpx", "nuclei", "nikto", "whatweb", "wafw00f",
       "sqlmap", "wpscan", "feroxbuster", "gobuster", "ffuf",
       "dirsearch", "gau", "waybackurls", "katana", "paramspider" >>

api_keys ==
    << <<"MISTRAL_API_KEY">>, <<"OPENAI_API_KEY">>,
       <<"ANTHROPIC_API_KEY">>, <<"GOOGLE_API_KEY">> >>

Range(s) == { s[i] : i \in 1..Len(s) }

-----------------------------------------------------------------------------
(* check_command *)

\* The directories probed after PATH, in the order of the list common_paths.
common_paths ==
    << "~/go/bin/", "~/.cargo/bin/", "~/.local/bin/", "~/bin/", "/usr/local/go/bin/" >>

\* What a fallback directory holds under the command's name.
EntryStates == {"absent", "not_executable", "executable"}

\* Mutant of exists_and_executable: the os.access(p, os.X_OK) test is left out.
exists_only(entry) == entry # "absent"

\* os.path.exists(p) and os.access(p, os.X_OK)
exists_and_executable(entry) == entry = "executable"

\* Mutant of check_command: the fallback directories are probed before PATH.
check_command_fallback_first(cmd, which, fb) ==
    IF \E i \in 1..Len(common_paths) : fb[i] = "executable"
    THEN [status |-> "WARNING",
          message |-> << "Found at ",
                         common_paths[CHOOSE k \in 1..Len(common_paths) :
                                          /\ fb[k] = "executable"
                                          /\ \A j \in 1..(k - 1) : fb[j] # "executable"],
                         cmd, " (Not in PATH)" >>]
    ELSE IF which # <<>>
         THEN [status |-> "OK", message |-> which[1]]
         ELSE [status |-> "MISSING", message |-> << "Not found in PATH" >>]

\* which: <<>> when shutil.which returned None, else << path >>, the path being
\* the pair << directory, command >>.
\* fb: for each index of common_paths, the state of the entry there.
check_command(cmd, which, fb) ==
    IF which # <<>>
    THEN [status |-> "OK", message |-> which[1]]
    ELSE IF \E i \in 1..Len(common_paths) : exists_and_executable(fb[i])
         THEN LET i == CHOOSE k \in 1..Len(common_paths) :
                          /\ exists_and_executable(fb[k])
                          /\ \A j \in 1..(k - 1) : ~exists_and_executable(fb[j])
              IN  [status |-> "WARNING",
                   message |-> << "Found at ", common_paths[i], cmd, " (Not in PATH)" >>]
         ELSE [status |-> "MISSING", message |-> << "Not found in PATH" >>]

-----------------------------------------------------------------------------
(* check_python_package *)

\* Names with a dot: importlib.util.find_spec imports the parent package first.
dotted(name) == name \in {"google.generativeai"}

\* How importlib.util.find_spec(name) can end: it returns a spec or None, or it
\* raises.  ValueError: sys.modules[name].__spec__ is None or unset.  For a
\* dotted name the parent package is imported, which raises ModuleNotFoundError
\* (an ImportError) when the parent is absent, and propagates whatever the
\* parent's own code raises while it is imported ("OtherException": anything
\* that is none of ImportError, AttributeError, ValueError).
find_spec_outcomes(name) ==
    {"spec", "None", "ValueError"}
        \cup (IF dotted(name)
              THEN {"ImportError", "AttributeError", "OtherException"}
              ELSE {})

\* The exceptions of the except clause.
caught == {"ImportError", "AttributeError", "ValueError"}

check_python_package(package, outcome) ==
    IF outcome = "spec"
    THEN [raised |-> FALSE, status |-> "OK", message |-> <<>>]
    ELSE IF outcome = "None" \/ outcome \in caught
         THEN [raised |-> FALSE, status |-> "MISSING",
               message |-> << "Run: pip install ", package >>]
         ELSE [raised |-> TRUE, status |-> outcome, message |-> <<>>]

\* main's mapping of a declared package name to the module it looks up.
module_of(pkg) == IF pkg = "dnspython" THEN "dns" ELSE pkg

-----------------------------------------------------------------------------
(* check_env_var *)

placeholders == { <<"your-key-here">>, <<"your-mistral-api-key">> }

\* Mutant of check_env_var: the value is trimmed before the placeholder test.
check_env_var_trimmed(env, var) ==
    IF var \in DOMAIN env /\ env[var] # <<>> /\ strip(env[var]) # <<>>
    THEN IF strip(env[var]) \in placeholders
         THEN [status |-> "WARNING", message |-> << "Set to placeholder value" >>]
         ELSE [status |-> "OK", message |-> << "Configured" >>]
    ELSE [status |-> "WARNING", message |-> << "Not set (some features may fail)" >>]

\* os.getenv(var) is None exactly when var is no key of the environment.
check_env_var(env, var) ==
    IF var \in DOMAIN env /\ env[var] # <<>> /\ strip(env[var]) # <<>>
    THEN IF env[var] \in placeholders
         THEN [status |-> "WARNING", message |-> << "Set to placeholder value" >>]
         ELSE [status |-> "OK", message |-> << "Configured" >>]
    ELSE [status |-> "WARNING", message |-> << "Not set (some features may fail)" >>]

-----------------------------------------------------------------------------
(* The .env parser of main() *)

\* Mutant of is_assignment: the comment test is left out.
is_assignment_any(line) == contains(line, "=")

\* the condition of the if inside the for-loop over the file
is_assignment(line) == contains(line, "=") /\ ~startswith(line, "#")

\* k, v = line.strip().split("=", 1)
parse_line(line) == split1(strip(line), "=")

\* os.environ[k] = v raises OSError (EINVAL from setenv) for an empty key.
setenv_raises(k) == k = <<>>

\* Mutant of setitem: a key that is already set keeps its value (setdefault).
setitem_keep_existing(env, k, v) ==
    [x \in (DOMAIN env) \cup {k} |-> IF x \in DOMAIN env THEN env[x] ELSE v]

\* os.environ[k] = v, for a key that setenv accepts
setitem(env, k, v) ==
    [x \in (DOMAIN env) \cup {k} |-> IF x = k THEN v ELSE env[x]]

\* One iteration of "for line in f": the environment after it, or the exception.
load_line(env, line) ==
    IF is_assignment(line)
    THEN IF setenv_raises(parse_line(line)[1])
         THEN [raised |-> TRUE, environ |-> env]
         ELSE [raised |-> FALSE,
               environ |-> setitem(env, parse_line(line)[1], parse_line(line)[2])]
    ELSE [raised |-> FALSE, environ |-> env]

-----------------------------------------------------------------------------
(* print_status and the values the variables start from *)

\* print_status(name, status, message) prints one line for each of the three
\* statuses; the line is kept as its arguments.  name is a sequence of atoms.
print_status(name, status, message) ==
    [name |-> name, status |-> status, message |-> message]

NothingPrinted == [name |-> <<>>, status |-> "", message |-> <<>>]
NoSummary == [kind |-> "none", count |-> 0]
NoInput == [fn |-> "main"]
NoResult == [raised |-> FALSE, status |-> "", message |-> <<>>]

-----------------------------------------------------------------------------
(* The surroundings one run of main() is explored in *)

\* What shutil.which(cmd) can return: None, or the path of cmd in a PATH entry.
which_results(cmd) == { <<>>, << << "/usr/bin/", cmd >> >> }

\* The fallback directories during a run of main: each holds the command as an
\* executable or not at all.
MainFallbacks == [1..Len(common_paths) -> {"absent", "executable"}]

\* The process environment main starts in.
MainEnvirons ==
    { << >>,
      [k \in { <<"ANTHROPIC_API_KEY">> } |-> <<"sk-old">>],
      [k \in { <<"ANTHROPIC_API_KEY">> } |-> <<"your-key-here">>] }

\* The lines a .env file is made of during a run of main.
MainLines ==
    { << "ANTHROPIC_API_KEY", "=", "sk-real123", "\n" >>,
      << "ANTHROPIC_API_KEY", "=", "your-key-here", "\n" >>,
      << "ANTHROPIC_API_KEY", " ", "=", " ", "sk-real123", "\n" >>,
      << "#", "ANTHROPIC_API_KEY", "=", "sk-real123", "\n" >>,
      << "=", "sk-real123", "\n" >> }

-----------------------------------------------------------------------------
(* main() *)

\* An uncaught exception ends the process with a traceback and status 1.
Crash ==
    /\ pc' = "crashed"
    /\ exit_status' = << 1 >>

\* for tool in sys_tools: lines 71-73
CheckSysTool ==
    /\ pc = "sys_tools"
    /\ \E which \in which_results(sys_tools[idx]), fb \in MainFallbacks :
          LET r == check_command(sys_tools[idx], which, fb) IN
          /\ r.status = "MISSING" => sys_missing + sec_missing < MaxMissing
          /\ printed' = print_status(<< sys_tools[idx] >>, r.status, r.message)
          /\ sys_missing' = IF r.status = "MISSING" THEN sys_missing + 1 ELSE sys_missing
    /\ IF idx < Len(sys_tools)
       THEN idx' = idx + 1 /\ pc' = pc
       ELSE idx' = 1 /\ pc' = "py_packages"
    /\ UNCHANGED << missing_tools, environ, summary, exit_status, env_lines,
                    sec_missing, input, result >>

\* for pkg in py_packages: lines 86-93
CheckPyPackage ==
    /\ pc = "py_packages"
    /\ \E outcome \in find_spec_outcomes(module_of(py_packages[idx])) :
          LET r == check_python_package(module_of(py_packages[idx]), outcome) IN
          IF r.raised
          THEN /\ Crash
               /\ UNCHANGED << idx, printed >>
          ELSE /\ printed' = print_status(<< py_packages[idx] >>, r.status, r.message)
               /\ IF idx < Len(py_packages)
                  THEN idx' = idx + 1 /\ pc' = pc
                  ELSE idx' = 1 /\ pc' = "sec_tools"
               /\ UNCHANGED exit_status
    /\ UNCHANGED << missing_tools, environ, summary, env_lines, sys_missing,
                    sec_missing, input, result >>

\* the list missing_tools after one iteration of the loop of lines 109-113
record_missing(missing, tool, status) ==
    IF status = "MISSING" THEN Append(missing, tool) ELSE missing

\* for tool in sec_tools: lines 109-113
CheckSecTool ==
    /\ pc = "sec_tools"
    /\ \E which \in which_results(sec_tools[idx]), fb \in MainFallbacks :
          LET r == check_command(sec_tools[idx], which, fb) IN
          /\ r.status = "MISSING" => sys_missing + sec_missing < MaxMissing
          /\ printed' = print_status(<< sec_tools[idx] >>, r.status, r.message)
          /\ missing_tools' = record_missing(missing_tools, sec_tools[idx], r.status)
          /\ sec_missing' = IF r.status = "MISSING" THEN sec_missing + 1 ELSE sec_missing
    /\ IF idx < Len(sec_tools)
       THEN idx' = idx + 1 /\ pc' = pc
       ELSE idx' = 1 /\ pc' = "env_file"
    /\ UNCHANGED << environ, summary, exit_status, env_lines, sys_missing,
                    input, result >>

\* env_path.exists() and the report of it: lines 119-121, 128-129
CheckEnvFile ==
    /\ pc = "env_file"
    /\ \E exists \in BOOLEAN :
          IF exists
          THEN /\ printed' = print_status(<< ".env file" >>, "OK", << "Found" >>)
               /\ pc' = "load"
          ELSE /\ printed' = print_status(<< ".env file" >>, "MISSING",
                                          << "Copy .env.example to .env" >>)
               /\ pc' = "api_keys"
    /\ UNCHANGED << idx, missing_tools, environ, summary, exit_status, env_lines,
                    sys_missing, sec_missing, input, result >>

\* one iteration of "for line in f": lines 124-127
LoadLine ==
    /\ pc = "load"
    /\ Len(env_lines) < MaxLines
    /\ \E line \in MainLines :
          LET r == load_line(environ, line) IN
          /\ env_lines' = Append(env_lines, line)
          /\ IF r.raised
             THEN Crash /\ UNCHANGED environ
             ELSE environ' = r.environ /\ UNCHANGED << pc, exit_status >>
    /\ UNCHANGED << idx, missing_tools, printed, summary, sys_missing,
                    sec_missing, input, result >>

\* the file is exhausted: the for-loop and the with-block end
CloseEnvFile ==
    /\ pc = "load"
    /\ pc' = "api_keys"
    /\ UNCHANGED << idx, missing_tools, environ, printed, summary, exit_status,
                    env_lines, sys_missing, sec_missing, input, result >>

\* for key in api_keys: lines 137-139
CheckApiKey ==
    /\ pc = "api_keys"
    /\ LET r == check_env_var(environ, api_keys[idx]) IN
          printed' = print_status(api_keys[idx], r.status, r.message)
    /\ IF idx < Len(api_keys)
       THEN idx' = idx + 1 /\ pc' = pc
       ELSE idx' = 1 /\ pc' = "summary"
    /\ UNCHANGED << missing_tools, environ, summary, exit_status, env_lines,
                    sys_missing, sec_missing, input, result >>

\* Mutant of summary_of: the count printed is that of the probed tools.
summary_of_probed_count(missing) ==
    IF missing # <<>>
    THEN [kind |-> "warning", count |-> Len(sec_tools)]
    ELSE [kind |-> "all_clear", count |-> 0]

\* what the summary block prints for a list missing_tools: lines 143-149
summary_of(missing) ==
    IF missing # <<>>
    THEN [kind |-> "warning", count |-> Len(missing)]
    ELSE [kind |-> "all_clear", count |-> 0]

\* the summary, after which main returns and the process exits with status 0
Summary ==
    /\ pc = "summary"
    /\ summary' = summary_of(missing_tools)
    /\ pc' = "done"
    /\ exit_status' = << 0 >>
    /\ UNCHANGED << idx, missing_tools, environ, printed, env_lines, sys_missing,
                    sec_missing, input, result >>

Init ==
    /\ pc = "sys_tools"
    /\ idx = 1
    /\ missing_tools = << >>
    /\ environ \in MainEnvirons
    /\ printed = NothingPrinted
    /\ summary = NoSummary
    /\ exit_status = << >>
    /\ env_lines = << >>
    /\ sys_missing = 0
    /\ sec_missing = 0
    /\ input = NoInput
    /\ result = NoResult

Next ==
    \/ CheckSysTool
    \/ CheckPyPackage
    \/ CheckSecTool
    \/ CheckEnvFile
    \/ LoadLine
    \/ CloseEnvFile
    \/ CheckApiKey
    \/ Summary

Spec == Init /\ [][Next]_vars

-----------------------------------------------------------------------------
(* Direct calls of the four pieces of logic, on inputs drawn from bounded sets *)

\* All strings of at most n atoms over the given atoms.
Strings(atoms, n) == UNION { [1..k -> atoms] : k \in 0..n }

Special == Whitespace \cup {"=", "#"}

\* A sequence of atoms that stands for one string in one way only: a maximal
\* run of ordinary characters is one atom, so no two such atoms are adjacent.
canonical(s) ==
    \A i \in 1..(Len(s) - 1) : s[i] \in Special \/ s[i + 1] \in Special

\* File iteration yields lines that hold a newline at their end only.
one_line(s) == \A i \in 1..(Len(s) - 1) : s[i] # "\n"

ValueAtoms ==
    {" ", "\t", "your-key-here", "your-mistral-api-key", "Your-Key-Here", "sk-real123"}

UnitValues == { v \in Strings(ValueAtoms, MaxValLen) : canonical(v) }

LineAtoms == {"KEY", "value", " ", "=", "#", "\n"}

UnitLines == { l \in Strings(LineAtoms, MaxLineLen) : canonical(l) /\ one_line(l) }

Commands == Range(sys_tools) \cup Range(sec_tools)

Modules == { module_of(py_packages[i]) : i \in 1..Len(py_packages) }

\* the environments check_env_var is called in: var unset, or var set to v
VarEnvirons(var) == { << >> } \cup { [k \in {var} |-> v] : v \in UnitValues }

\* the environments a line is loaded into
LoadEnvirons == { << >>, [k \in { <<"KEY">> } |-> <<"old">>] }

UnitInit ==
    /\ pc = "call"
    /\ idx = 1
    /\ missing_tools = << >>
    /\ printed = NothingPrinted
    /\ summary = NoSummary
    /\ exit_status = << >>
    /\ env_lines = << >>
    /\ sys_missing = 0
    /\ sec_missing = 0
    /\ result = NoResult
    /\ \/ /\ \E cmd \in Commands :
               \E which \in which_results(cmd) :
                  \E fb \in [1..Len(common_paths) -> EntryStates] :
                     input = [fn |-> "check_command", cmd |-> cmd,
                              which |-> which, fb |-> fb]
          /\ environ = << >>
       \/ /\ \E package \in Modules :
               \E outcome \in find_spec_outcomes(package) :
                  input = [fn |-> "check_python_package", package |-> package,
                           outcome |-> outcome]
          /\ environ = << >>
       \/ \E var \in Range(api_keys) :
             /\ input = [fn |-> "check_env_var", var |-> var]
             /\ environ \in VarEnvirons(var)
       \/ \E line \in UnitLines :
             /\ environ \in LoadEnvirons
             /\ input = [fn |-> "load_line", line |-> line, environ |-> environ]

CallCheckCommand ==
    /\ pc = "call" /\ input.fn = "check_command"
    /\ LET r == check_command(input.cmd, input.which, input.fb) IN
          result' = [raised |-> FALSE, status |-> r.status, message |-> r.message]
    /\ pc' = "returned"
    /\ UNCHANGED << idx, missing_tools, environ, printed, summary, exit_status,
                    env_lines, sys_missing, sec_missing, input >>

CallCheckPythonPackage ==
    /\ pc = "call" /\ input.fn = "check_python_package"
    /\ result' = check_python_package(input.package, input.outcome)
    /\ pc' = "returned"
    /\ UNCHANGED << idx, missing_tools, environ, printed, summary, exit_status,
                    env_lines, sys_missing, sec_missing, input >>

CallCheckEnvVar ==
    /\ pc = "call" /\ input.fn = "check_env_var"
    /\ LET r == check_env_var(environ, input.var) IN
          result' = [raised |-> FALSE, status |-> r.status, message |-> r.message]
    /\ pc' = "returned"
    /\ UNCHANGED << idx, missing_tools, environ, printed, summary, exit_status,
                    env_lines, sys_missing, sec_missing, input >>

CallLoadLine ==
    /\ pc = "call" /\ input.fn = "load_line"
    /\ LET r == load_line(environ, input.line) IN
          /\ environ' = r.environ
          /\ result' = [raised |-> r.raised, status |-> "", message |-> << >>]
    /\ pc' = "returned"
    /\ UNCHANGED << idx, missing_tools, printed, summary, exit_status,
                    env_lines, sys_missing, sec_missing, input >>

UnitNext ==
    \/ CallCheckCommand
    \/ CallCheckPythonPackage
    \/ CallCheckEnvVar
    \/ CallLoadLine

UnitSpec == UnitInit /\ [][UnitNext]_vars

-----------------------------------------------------------------------------
(* The claims *)

\* The variable probe whose line is the latest printed one.
VarProbed == (pc = "api_keys" /\ idx > 1) \/ pc \in {"summary", "done"}
ProbedVar == api_keys[IF pc = "api_keys" THEN idx - 1 ELSE Len(api_keys)]

\* The package probe whose line is the latest printed one.
PackageProbed == (pc = "py_packages" /\ idx > 1) \/ (pc = "sec_tools" /\ idx = 1)
ProbedPackage == py_packages[IF pc = "py_packages" THEN idx - 1 ELSE Len(py_packages)]

\* C1: no line of the settings file aborts the run: a run of main() that has
\* read lines of the file and has ended has printed the summary and exited
\* with status 0.  (The package probes, which can end a run before the file is
\* opened, are the subject of C9.)
C1_RunEndsWithStatusZero ==
    env_lines # << >> /\ exit_status # << >> =>
        exit_status = << 0 >> /\ summary # NoSummary

\* The lines of the file read so far that assign the key, by position.
AssignmentsTo(key) ==
    { i \in 1..Len(env_lines) :
         /\ contains(env_lines[i], "=")
         /\ ~startswith(env_lines[i], "#")
         /\ split1(strip(env_lines[i]), "=")[1] = key }

LastAssignmentTo(key) ==
    CHOOSE i \in AssignmentsTo(key) : \A j \in AssignmentsTo(key) : j <= i

\* C2: when a variable probe runs the loader has injected every assignment of
\* the file: the probe of a variable that the file assigns reports the
\* classification of the file's (last) value for it, whatever it held before.
C2_ProbeSeesFileValue ==
    VarProbed /\ AssignmentsTo(ProbedVar) # {} =>
        LET v == split1(strip(env_lines[LastAssignmentTo(ProbedVar)]), "=")[2]
            r == check_env_var([k \in {ProbedVar} |-> v], ProbedVar)
        IN  printed = print_status(ProbedVar, r.status, r.message)

C2_Witness ==
    /\ VarProbed
    /\ ProbedVar = <<"ANTHROPIC_API_KEY">>
    /\ env_lines = << << "ANTHROPIC_API_KEY", "=", "your-key-here", "\n" >>,
                      << "ANTHROPIC_API_KEY", "=", "sk-real123", "\n" >> >>
    /\ printed = print_status(<<"ANTHROPIC_API_KEY">>, "OK", << "Configured" >>)

\* C3: a loaded line that contains "=" and is no comment sets the key, the text
\* before the first "=" with its surrounding whitespace stripped, to the value,
\* the text after it with its surrounding whitespace stripped.  (Stated for the
\* lines whose key is not empty; the empty key is the subject of C1.)
C3_KeyAndValueStripped ==
    /\ pc = "returned"
    /\ input.fn = "load_line"
    /\ contains(input.line, "=")
    /\ ~startswith(input.line, "#")
    /\ strip(SubSeq(input.line, 1, find(input.line, "=") - 1)) # << >>
    => LET i == find(input.line, "=")
           k == strip(SubSeq(input.line, 1, i - 1))
           v == strip(SubSeq(input.line, i + 1, Len(input.line)))
       IN  /\ ~result.raised
           /\ k \in DOMAIN environ
           /\ environ[k] = v

\* C4: loading a line that begins with "#" or that holds no "=" leaves the
\* process environment as it was.
C4_IgnoredLineKeepsEnviron ==
    /\ pc = "returned"
    /\ input.fn = "load_line"
    /\ startswith(input.line, "#") \/ ~contains(input.line, "=")
    => environ = input.environ /\ ~result.raised

C4_Witness ==
    /\ pc = "returned"
    /\ input.fn = "load_line"
    /\ input.line = << "#", "KEY", "=", "value" >>
    /\ input.environ = [k \in { <<"KEY">> } |-> <<"old">>]
    /\ environ = input.environ

C6_ResolvedCommandIsOk ==
    /\ pc = "returned"
    /\ input.fn = "check_command"
    /\ input.which # << >>
    => result.status = "OK" /\ result.message = input.which[1]

C6_Witness ==
    /\ pc = "returned"
    /\ input.fn = "check_command"
    /\ input.which # << >>
    /\ input.fb[1] = "executable"
    /\ result.status = "OK"

\* C7: a command that the PATH lookup does not resolve is reported WARNING when
\* a fallback directory holds an executable entry of its name, and MISSING
\* exactly when none does.
C7_UnresolvedCommandWarningOrMissing ==
    /\ pc = "returned"
    /\ input.fn = "check_command"
    /\ input.which = << >>
    => IF \E i \in 1..5 : input.fb[i] = "executable"
       THEN result.status = "WARNING"
       ELSE result.status = "MISSING"

C7_Witness ==
    /\ pc = "returned"
    /\ input.fn = "check_command"
    /\ input.which = << >>
    /\ input.fb = << "not_executable", "absent", "absent", "absent", "executable" >>
    /\ result.status = "WARNING"

AllWhitespace(v) == \A i \in 1..Len(v) : v[i] \in {" ", "\t", "\n"}

\* C8: check_env_var reports WARNING "not set" for an unset, empty or
\* whitespace-only variable, WARNING "placeholder" for a value equal to one of
\* the two placeholder strings as it stands, and OK "Configured" for every
\* other value; it never reports MISSING.
C8_VariableClassification ==
    pc = "returned" /\ input.fn = "check_env_var" =>
        /\ result.status # "MISSING"
        /\ IF input.var \notin DOMAIN environ \/ AllWhitespace(environ[input.var])
           THEN /\ result.status = "WARNING"
                /\ result.message = << "Not set (some features may fail)" >>
           ELSE IF \/ environ[input.var] = << "your-key-here" >>
                   \/ environ[input.var] = << "your-mistral-api-key" >>
                THEN /\ result.status = "WARNING"
                     /\ result.message = << "Set to placeholder value" >>
                ELSE /\ result.status = "OK"
                     /\ result.message = << "Configured" >>

C8_Witness ==
    /\ pc = "returned"
    /\ input.fn = "check_env_var"
    /\ input.var \in DOMAIN environ
    /\ environ[input.var] = << " ", "your-key-here" >>
    /\ result.status = "OK"

\* C9: check_python_package raises nothing: however the module lookup fails,
\* it returns MISSING, as it does when the module is not found.
C9_LookupFailureIsMissing ==
    pc = "returned" /\ input.fn = "check_python_package" =>
        /\ ~result.raised
        /\ input.outcome # "spec" => result.status = "MISSING"

\* C10: a package probe that reports MISSING prints an install hint that names
\* the declared package name of the catalog entry.
C10_HintNamesDeclaredPackage ==
    PackageProbed /\ printed.status = "MISSING" =>
        printed.message = << "Run: pip install ", ProbedPackage >>

=============================================================================
